---- MODULE Spec2Model ----
(***************************************************************************)
(* dist-kv: a leader that applies operator commands to an in-memory table, *)
(* appends them to a log file and forwards them to a follower, which       *)
(* applies and logs them in per-connection handlers.                       *)
(*                                                                         *)
(* Text (operator lines, log files, the bytes on a connection) is modelled *)
(* as sequences of one-character strings, so that formatting a record and  *)
(* parsing a line are real conversions.                                    *)
(*                                                                         *)
(* The leader is setup_leader of src/main.rs.  The follower is the         *)
(* follower binary, src/follower/main.rs; handle_client of src/follower.rs *)
(* is the same text.  A file that does not exist and an empty file are not *)
(* told apart: replay yields the empty table for both.                     *)
(***************************************************************************)
EXTENDS Integers, Sequences, FiniteSets, TLC

----------------------------------------------------------------------------
(* Bounds of the model *)

\* operator lines the leader reads in one run
MaxCmds == 3
\* leader crashes in one run
MaxCrashes == 1
\* lines the clients of the follower-only specification send in one run
MaxLines == 3
\* bytes a short write() puts into the file before write_all calls it again
ShortWrite == 4
\* log I/O errors injected in one run
MaxIoErrors == 1
\* length of the log files drawn for the replay specification, in lines
MaxLogLines == 3

----------------------------------------------------------------------------
(* Text *)

SP == <<" ">>
NL == <<"\n">>
SET == <<"S", "E", "T">>
DEL == <<"D", "E", "L">>
GET == <<"G", "E", "T">>
FOO == <<"F", "O", "O">>

Whitespace == {" ", "\n", "\t", "\r"}

\* str::starts_with
starts_with(s, p) == Len(s) >= Len(p) /\ SubSeq(s, 1, Len(p)) = p

\* str::trim_end
RECURSIVE trim_end(_)
trim_end(s) ==
    IF s # <<>> /\ s[Len(s)] \in Whitespace
    THEN trim_end(SubSeq(s, 1, Len(s) - 1))
    ELSE s

\* str::split_whitespace: the maximal runs of non-whitespace, in order
RECURSIVE split_ws(_, _, _)
split_ws(s, cur, acc) ==
    IF s = <<>>
    THEN IF cur = <<>> THEN acc ELSE Append(acc, cur)
    ELSE IF Head(s) \in Whitespace
         THEN split_ws(Tail(s), <<>>, IF cur = <<>> THEN acc ELSE Append(acc, cur))
         ELSE split_ws(Tail(s), Append(cur, Head(s)), acc)

split_whitespace(s) == split_ws(s, <<>>, <<>>)

\* BufRead::lines: the file cut at each "\n", the "\n" (and a "\r" before it)
\* dropped; bytes after the last "\n" are a last line
RECURSIVE lines_acc(_, _, _)
lines_acc(s, cur, acc) ==
    IF s = <<>>
    THEN IF cur = <<>> THEN acc ELSE Append(acc, cur)
    ELSE IF Head(s) = "\n"
         THEN lines_acc(Tail(s), <<>>,
                        Append(acc, IF cur # <<>> /\ cur[Len(cur)] = "\r"
                                    THEN SubSeq(cur, 1, Len(cur) - 1)
                                    ELSE cur))
         ELSE lines_acc(Tail(s), Append(cur, Head(s)), acc)

lines(s) == lines_acc(s, <<>>, <<>>)

\* format!("SET {} {}\n", key, val) and format!("DEL {}\n", key)
FormatSet(key, val) == SET \o SP \o key \o SP \o val \o NL
FormatDel(key) == DEL \o SP \o key \o NL

----------------------------------------------------------------------------
(* Commands and responses *)

NoStr == <<>>

CmdSet(k, v) == [type |-> "Set", key |-> k, val |-> v]
CmdDelete(k) == [type |-> "Delete", key |-> k, val |-> NoStr]
CmdGet(k) == [type |-> "Get", key |-> k, val |-> NoStr]
CmdUnknown == [type |-> "Unknown", key |-> NoStr, val |-> NoStr]
\* Option::expect on a missing token: the thread panics
CmdPanic == [type |-> "Panic", key |-> NoStr, val |-> NoStr]

\* impl From<String> for Command, the leader's (main.rs)
LeaderCommandFrom(s) ==
    LET toks == split_whitespace(s)
    IN  IF Len(toks) < 2 THEN CmdPanic
        ELSE IF starts_with(s, SET)
             THEN IF Len(toks) < 3 THEN CmdPanic ELSE CmdSet(toks[2], toks[3])
             ELSE IF starts_with(s, GET) THEN CmdGet(toks[2])
             ELSE IF starts_with(s, DEL) THEN CmdDelete(toks[2])
             ELSE CmdUnknown

\* impl From<String> for Command, the follower's (no Get variant)
FollowerCommandFrom(s) ==
    LET toks == split_whitespace(s)
    IN  IF Len(toks) < 2 THEN CmdPanic
        ELSE IF starts_with(s, SET)
             THEN IF Len(toks) < 3 THEN CmdPanic ELSE CmdSet(toks[2], toks[3])
             ELSE IF starts_with(s, DEL) THEN CmdDelete(toks[2])
             ELSE CmdUnknown

RespGet(k, v) == [type |-> "Get", key |-> k, old |-> NoStr, val |-> v]
RespSet(k, v) == [type |-> "Set", key |-> k, old |-> NoStr, val |-> v]
RespReplace(k, o, v) == [type |-> "Replace", key |-> k, old |-> o, val |-> v]
RespDelete(k, o) == [type |-> "Delete", key |-> k, old |-> NoStr, val |-> o]
RespKeyNotFound(k) == [type |-> "KeyNotFound", key |-> k, old |-> NoStr, val |-> NoStr]
RespUnknown == [type |-> "Unknown", key |-> NoStr, old |-> NoStr, val |-> NoStr]

----------------------------------------------------------------------------
(* The table: HashMap<String, String> as a function from keys to values *)

EmptyDb == [k \in {} |-> NoStr]

contains_key(db, k) == k \in DOMAIN db
insert(db, k, v) == [x \in DOMAIN db \cup {k} |-> IF x = k THEN v ELSE db[x]]
remove(db, k) == [x \in DOMAIN db \ {k} |-> db[x]]

\* run_command with the removal of the Delete arm left out
run_command_NoRemove(hashmap, command) ==
    CASE command.type = "Get" ->
           IF contains_key(hashmap, command.key)
           THEN [db |-> hashmap, response |-> RespGet(command.key, hashmap[command.key])]
           ELSE [db |-> hashmap, response |-> RespKeyNotFound(command.key)]
      [] command.type = "Set" ->
           IF contains_key(hashmap, command.key)
           THEN [db |-> insert(hashmap, command.key, command.val),
                 response |-> RespReplace(command.key, hashmap[command.key], command.val)]
           ELSE [db |-> insert(hashmap, command.key, command.val),
                 response |-> RespSet(command.key, command.val)]
      [] command.type = "Delete" ->
           IF contains_key(hashmap, command.key)
           THEN [db |-> hashmap,
                 response |-> RespDelete(command.key, hashmap[command.key])]
           ELSE [db |-> hashmap, response |-> RespKeyNotFound(command.key)]
      [] OTHER -> [db |-> hashmap, response |-> RespUnknown]

\* run_command: the table after the command and the response
run_command(hashmap, command) ==
    CASE command.type = "Get" ->
           IF contains_key(hashmap, command.key)
           THEN [db |-> hashmap, response |-> RespGet(command.key, hashmap[command.key])]
           ELSE [db |-> hashmap, response |-> RespKeyNotFound(command.key)]
      [] command.type = "Set" ->
           IF contains_key(hashmap, command.key)
           THEN [db |-> insert(hashmap, command.key, command.val),
                 response |-> RespReplace(command.key, hashmap[command.key], command.val)]
           ELSE [db |-> insert(hashmap, command.key, command.val),
                 response |-> RespSet(command.key, command.val)]
      [] command.type = "Delete" ->
           IF contains_key(hashmap, command.key)
           THEN [db |-> remove(hashmap, command.key),
                 response |-> RespDelete(command.key, hashmap[command.key])]
           ELSE [db |-> hashmap, response |-> RespKeyNotFound(command.key)]
      [] OTHER -> [db |-> hashmap, response |-> RespUnknown]

\* the loop of replay with the Delete arm falling through to the default arm
ReplayStep_DeleteIgnored(hashmap, c) ==
    CASE c.type = "Set" -> insert(hashmap, c.key, c.val)
      [] OTHER -> hashmap

\* one turn of the loop of replay: the parsed line folded into the table
ReplayStep(hashmap, c) ==
    CASE c.type = "Set" -> insert(hashmap, c.key, c.val)
      [] c.type = "Delete" -> remove(hashmap, c.key)
      [] OTHER -> hashmap

\* replay of main.rs: Ok(table), or a panic of Command::from on a line
RECURSIVE replay_lines(_, _)
replay_lines(hashmap, ls) ==
    IF ls = <<>> THEN [status |-> "Ok", db |-> hashmap]
    ELSE LET c == LeaderCommandFrom(Head(ls))
         IN  IF c.type = "Panic" THEN [status |-> "Panic", db |-> EmptyDb]
             ELSE replay_lines(ReplayStep(hashmap, c), Tail(ls))

replay(bytes) == replay_lines(EmptyDb, lines(bytes))

\* replay of follower/main.rs
RECURSIVE follower_replay_lines(_, _)
follower_replay_lines(hashmap, ls) ==
    IF ls = <<>> THEN [status |-> "Ok", db |-> hashmap]
    ELSE LET c == FollowerCommandFrom(Head(ls))
         IN  IF c.type = "Panic" THEN [status |-> "Panic", db |-> EmptyDb]
             ELSE follower_replay_lines(ReplayStep(hashmap, c), Tail(ls))

follower_replay(bytes) == follower_replay_lines(EmptyDb, lines(bytes))

----------------------------------------------------------------------------
(* State *)

VARIABLES
    fs,         \* file path -> the bytes a reader of the file sees
    disk,       \* file path -> the bytes of it on stable storage
    cstate,     \* connection -> "none", "open", "shutdown" (by stream.shutdown
                \* of its client end) or "closed" (its client end is gone)
    sent,       \* connection -> the bytes written to it by its client end
    rpos,       \* connection -> how many of them the follower's handler has read
    lpc,        \* the leader's position in setup_leader / persist_command
    ldb,        \* the leader's hashmap
    lcmd,       \* the command the leader handles, or handled last
    lresp,      \* its response
    lconn,      \* the leader's stream: a connection, 0 before connect
    issued,     \* the lines the operator has entered so far
    display,    \* the responses println has displayed so far
    crashes,    \* leader crashes so far
    fpc,        \* the follower's position in main
    fdb,        \* the follower's shared hashmap
    dbLock,     \* the handler that holds the hashmap mutex, 0 when free
    fileLock,   \* the handler that holds the file mutex, 0 when free
    hpc,        \* handler -> its position in handle_client
    hcmd,       \* handler -> the command it handles
    hbuf,       \* handler -> the bytes of str_command write_all has yet to write
    ioErrors,   \* log I/O errors so far
    parg,       \* the argument of a call of a pure function
    pret        \* its result

fileVars == <<fs, disk>>
netVars == <<cstate, sent, rpos>>
leaderVars == <<lpc, ldb, lcmd, lresp, lconn, issued, display, crashes>>
followerVars == <<fpc, fdb, dbLock, fileLock, hpc, hcmd, hbuf>>
pureVars == <<parg, pret>>
vars == <<fileVars, netVars, leaderVars, followerVars, ioErrors, pureVars>>

\* connections the follower can accept in one run
NumConns == 2
Conns == 1..NumConns

\* the files of main.rs (the leader) and of follower/main.rs
LeaderReplayPath == "leader.db"
LeaderLogPath == "leader.log"
FollowerReplayPath == "follower.db"
FollowerLogPath == "follower.db"
Paths == {LeaderReplayPath, LeaderLogPath, FollowerReplayPath, FollowerLogPath}

NoCmd == CmdUnknown
NoCall == [fn |-> "none", db |-> EmptyDb, command |-> NoCmd, entries |-> <<>>, log |-> <<>>]
NoRet == [status |-> "none", db |-> EmptyDb, response |-> RespUnknown]

\* every process before its first step, every file empty
InitSys ==
    /\ fs = [p \in Paths |-> <<>>]
    /\ disk = [p \in Paths |-> <<>>]
    /\ cstate = [h \in Conns |-> "none"]
    /\ sent = [h \in Conns |-> <<>>]
    /\ rpos = [h \in Conns |-> 0]
    /\ lpc = "start"
    /\ ldb = EmptyDb
    /\ lcmd = NoCmd
    /\ lresp = RespUnknown
    /\ lconn = 0
    /\ issued = <<>>
    /\ display = <<>>
    /\ crashes = 0
    /\ fpc = "init"
    /\ fdb = EmptyDb
    /\ dbLock = 0
    /\ fileLock = 0
    /\ hpc = [h \in Conns |-> "idle"]
    /\ hcmd = [h \in Conns |-> NoCmd]
    /\ hbuf = [h \in Conns |-> <<>>]
    /\ ioErrors = 0

Init ==
    /\ InitSys
    /\ parg = NoCall
    /\ pret = NoRet

\* File::write_all / write: bytes appended to a file opened with append(true)
FileAppend(path, bytes) == fs' = [fs EXCEPT ![path] = @ \o bytes]
\* File::sync_all: what the file holds is on stable storage
SyncAll(path) == disk' = [disk EXCEPT ![path] = fs[path]]

----------------------------------------------------------------------------
(* The leader: setup_leader and persist_command of main.rs *)

\* the match of persist_command with an arm for Response::Get as well
Forwarded_GetToo(response) == response.type \in {"Set", "Delete", "Get"}

\* the arms of the match of persist_command that write and forward a record
Forwarded(response) == response.type \in {"Set", "Delete"}

\* str_command of persist_command
LeaderStrCommand(response) ==
    IF response.type = "Set" THEN FormatSet(response.key, response.val)
    ELSE FormatDel(response.key)

\* the first connection nobody has used yet, 0 when there is none
FreeConn ==
    IF \E h \in Conns : cstate[h] = "none"
    THEN CHOOSE h \in Conns : cstate[h] = "none" /\ \A g \in Conns : cstate[g] = "none" => h <= g
    ELSE 0

\* the leader process ends (return of an Err, a panic, a crash): its socket closes
CloseStream == cstate' = [h \in Conns |-> IF h = lconn THEN "closed" ELSE cstate[h]]

\* setup_leader up to the loop: connect, replay of leader.db, create_log_file
LeaderStart ==
    /\ lpc = "start"
    /\ IF fpc = "init" \/ FreeConn = 0
       THEN \* connect is refused: setup_leader returns the error
            /\ lpc' = "failed"
            /\ UNCHANGED <<ldb, lconn, cstate>>
       ELSE LET r == replay(fs[LeaderReplayPath])
            IN  /\ lconn' = FreeConn
                /\ IF r.status = "Ok"
                   THEN /\ ldb' = r.db
                        /\ lpc' = "read"
                        /\ cstate' = [cstate EXCEPT ![FreeConn] = "open"]
                   ELSE /\ ldb' = EmptyDb
                        /\ lpc' = "panicked"
                        /\ cstate' = [cstate EXCEPT ![FreeConn] = "closed"]
    /\ UNCHANGED <<fileVars, sent, rpos, lcmd, lresp, issued, display, crashes,
                   followerVars, ioErrors, pureVars>>

\* rl.readline returns Ok(line): Command::from and run_command
LeaderReadLine(line) ==
    /\ lpc = "read"
    /\ issued' = Append(issued, line)
    /\ LET c == LeaderCommandFrom(line)
       IN  IF c.type = "Panic"
           THEN /\ lpc' = "panicked"
                /\ CloseStream
                /\ UNCHANGED <<ldb, lcmd, lresp>>
           ELSE LET r == run_command(ldb, c)
                IN  /\ lcmd' = c
                    /\ ldb' = r.db
                    /\ lresp' = r.response
                    /\ lpc' = IF Forwarded(r.response) THEN "write" ELSE "sync"
                    /\ UNCHANGED cstate
    /\ UNCHANGED <<fileVars, sent, rpos, lconn, display, crashes,
                   followerVars, ioErrors, pureVars>>

\* a break out of the loop with no call of stream.shutdown
ShutdownStream_Skipped == UNCHANGED cstate

\* stream.shutdown: the write half of the leader's stream is closed in order
ShutdownStream == cstate' = [cstate EXCEPT ![lconn] = "shutdown"]

\* rl.readline returns Interrupted, Eof or an error: stream.shutdown, break
LeaderEof ==
    /\ lpc = "read"
    /\ lpc' = "exited"
    /\ ShutdownStream
    /\ UNCHANGED <<fileVars, sent, rpos, ldb, lcmd, lresp, lconn, issued, display,
                   crashes, followerVars, ioErrors, pureVars>>

\* rl.readline returns Interrupted, Eof or an error and stream.shutdown
\* returns an error, the follower's end of the connection being gone:
\* setup_leader returns it
LeaderEofError ==
    /\ lpc = "read"
    /\ hpc[lconn] = "ended"
    /\ lpc' = "failed"
    /\ CloseStream
    /\ UNCHANGED <<fileVars, sent, rpos, ldb, lcmd, lresp, lconn, issued, display,
                   crashes, followerVars, ioErrors, pureVars>>

\* file.write_all(str_command)
LeaderWriteLog ==
    /\ lpc = "write"
    /\ FileAppend(LeaderLogPath, LeaderStrCommand(lresp))
    /\ lpc' = "send"
    /\ UNCHANGED <<disk, netVars, ldb, lcmd, lresp, lconn, issued, display, crashes,
                   followerVars, ioErrors, pureVars>>

\* file.write_all or file.sync_all returns an error: persist_command and
\* setup_leader return it
LeaderIoError ==
    /\ lpc \in {"write", "sync"}
    /\ ioErrors < MaxIoErrors
    /\ ioErrors' = ioErrors + 1
    /\ lpc' = "failed"
    /\ CloseStream
    /\ UNCHANGED <<fileVars, sent, rpos, ldb, lcmd, lresp, lconn, issued, display,
                   crashes, followerVars, pureVars>>

\* stream.write_all(str_command)
LeaderForward ==
    /\ lpc = "send"
    /\ sent' = [sent EXCEPT ![lconn] = @ \o LeaderStrCommand(lresp)]
    /\ lpc' = "sync"
    /\ UNCHANGED <<fileVars, cstate, rpos, ldb, lcmd, lresp, lconn, issued, display,
                   crashes, followerVars, ioErrors, pureVars>>

\* stream.write_all returns an error, the follower's end of the connection
\* being gone: persist_command and setup_leader return it
LeaderForwardError ==
    /\ lpc = "send"
    /\ hpc[lconn] = "ended"
    /\ lpc' = "failed"
    /\ CloseStream
    /\ UNCHANGED <<fileVars, sent, rpos, ldb, lcmd, lresp, lconn, issued, display,
                   crashes, followerVars, ioErrors, pureVars>>

\* file.sync_all, println!("{}", response), Ok(())
LeaderSync ==
    /\ lpc = "sync"
    /\ SyncAll(LeaderLogPath)
    /\ display' = Append(display, lresp)
    /\ lpc' = "read"
    /\ UNCHANGED <<fs, netVars, ldb, lcmd, lresp, lconn, issued, crashes,
                   followerVars, ioErrors, pureVars>>

\* prefixes of the log that can be found after a crash: all that was synced,
\* and any part of what was written since
Survivors(path) ==
    {SubSeq(fs[path], 1, n) : n \in Len(disk[path])..Len(fs[path])}

\* the leader's machine stops at any point and the leader is started again
LeaderCrash ==
    /\ lpc \in {"read", "write", "send", "sync"}
    /\ crashes < MaxCrashes
    /\ crashes' = crashes + 1
    /\ \E kept \in Survivors(LeaderLogPath) :
          /\ fs' = [fs EXCEPT ![LeaderLogPath] = kept]
          /\ disk' = [disk EXCEPT ![LeaderLogPath] = kept]
    /\ CloseStream
    /\ lpc' = "start"
    /\ ldb' = EmptyDb
    /\ lconn' = 0
    /\ lcmd' = NoCmd
    /\ lresp' = RespUnknown
    /\ UNCHANGED <<sent, rpos, issued, display, followerVars, ioErrors, pureVars>>

----------------------------------------------------------------------------
(* The follower: main and handle_client of follower/main.rs *)

\* TcpListener::bind
FollowerBind ==
    /\ fpc = "init"
    /\ fpc' = "bound"
    /\ UNCHANGED <<fileVars, netVars, leaderVars, fdb, dbLock, fileLock, hpc, hcmd,
                   hbuf, ioErrors, pureVars>>

\* replay of follower.db, create_log_file, the two Arc<Mutex<_>>
FollowerStart ==
    /\ fpc = "bound"
    /\ LET r == follower_replay(fs[FollowerReplayPath])
       IN  IF r.status = "Ok"
           THEN fdb' = r.db /\ fpc' = "ready"
           ELSE fdb' = EmptyDb /\ fpc' = "panicked"
    /\ UNCHANGED <<fileVars, netVars, leaderVars, dbLock, fileLock, hpc, hcmd, hbuf,
                   ioErrors, pureVars>>

\* an accept loop that runs before the replay
Accept_BeforeReplay(h) ==
    /\ fpc \in {"bound", "ready"}
    /\ cstate[h] # "none"
    /\ hpc[h] = "idle"
    /\ hpc' = [hpc EXCEPT ![h] = "read"]
    /\ UNCHANGED <<fileVars, netVars, leaderVars, fpc, fdb, dbLock, fileLock, hcmd,
                   hbuf, ioErrors, pureVars>>

\* listener.accept and tokio::spawn of handle_client for the connection
Accept(h) ==
    /\ fpc = "ready"
    /\ cstate[h] # "none"
    /\ hpc[h] = "idle"
    /\ hpc' = [hpc EXCEPT ![h] = "read"]
    /\ UNCHANGED <<fileVars, netVars, leaderVars, fpc, fdb, dbLock, fileLock, hcmd,
                   hbuf, ioErrors, pureVars>>

\* the bytes of connection h not read yet
Unread(h) == SubSeq(sent[h], rpos[h] + 1, Len(sent[h]))

\* read_line: the bytes up to and with the first "\n"; at the end of a closed
\* stream, the bytes that are left (none: an empty string)
ReadLineReady(h) ==
    \/ \E i \in 1..Len(Unread(h)) : Unread(h)[i] = "\n"
    \/ cstate[h] \in {"closed", "shutdown"}

ReadLineData(h) ==
    LET u == Unread(h)
    IN  IF \E i \in 1..Len(u) : u[i] = "\n"
        THEN SubSeq(u, 1, CHOOSE i \in 1..Len(u) :
                             u[i] = "\n" /\ \A j \in 1..(i - 1) : u[j] # "\n")
        ELSE u

\* a handler that goes on reading after a panic of Command::from
AfterRead_NeverEnds(c) ==
    CASE c.type \in {"Panic", "Unknown"} -> "read"
      [] OTHER -> "lockdb"

\* where handle_client goes after Command::from: a panic unwinds the task,
\* Command::Unknown goes round the loop, Set and Delete take the locks
AfterRead(c) ==
    CASE c.type = "Panic" -> "ended"
      [] c.type = "Unknown" -> "read"
      [] OTHER -> "lockdb"

\* read_line, trim_end, Command::from and the match on the command
HandlerRead(h) ==
    /\ hpc[h] = "read"
    /\ ReadLineReady(h)
    /\ rpos' = [rpos EXCEPT ![h] = @ + Len(ReadLineData(h))]
    /\ LET c == FollowerCommandFrom(trim_end(ReadLineData(h)))
       IN  /\ hcmd' = [hcmd EXCEPT ![h] = c]
           /\ hpc' = [hpc EXCEPT ![h] = AfterRead(c)]
    /\ UNCHANGED <<fileVars, cstate, sent, leaderVars, fpc, fdb, dbLock, fileLock,
                   hbuf, ioErrors, pureVars>>

\* a lock that does not wait
MutexFree_NoWait(holder) == TRUE

\* Mutex::lock: the caller waits until the mutex is free
MutexFree(holder) == holder = 0

\* hashmap.lock().unwrap()
HandlerLockDb(h) ==
    /\ hpc[h] = "lockdb"
    /\ MutexFree(dbLock)
    /\ dbLock' = h
    /\ hpc' = [hpc EXCEPT ![h] = "lockfile"]
    /\ UNCHANGED <<fileVars, netVars, leaderVars, fpc, fdb, fileLock, hcmd, hbuf,
                   ioErrors, pureVars>>

\* file.lock().unwrap()
HandlerLockFile(h) ==
    /\ hpc[h] = "lockfile"
    /\ MutexFree(fileLock)
    /\ fileLock' = h
    /\ hpc' = [hpc EXCEPT ![h] = "apply"]
    /\ UNCHANGED <<fileVars, netVars, leaderVars, fpc, fdb, dbLock, hcmd, hbuf,
                   ioErrors, pureVars>>

\* the Set arm writing the record of the Delete arm
FollowerStrCommand_AlwaysDel(c) == FormatDel(c.key)

\* str_command of handle_client
FollowerStrCommand(c) ==
    IF c.type = "Set" THEN FormatSet(c.key, c.val) ELSE FormatDel(c.key)

\* the Set arm keeping the value of a key that is present
FollowerApply_KeepsOld(db, c) ==
    IF c.type = "Set"
    THEN (IF contains_key(db, c.key) THEN db ELSE insert(db, c.key, c.val))
    ELSE remove(db, c.key)

\* hashmap.insert / hashmap.remove of handle_client
FollowerApply(db, c) ==
    IF c.type = "Set" THEN insert(db, c.key, c.val) ELSE remove(db, c.key)

\* hashmap.insert or hashmap.remove, and format! of str_command
HandlerApply(h) ==
    /\ hpc[h] = "apply"
    /\ fdb' = FollowerApply(fdb, hcmd[h])
    /\ hbuf' = [hbuf EXCEPT ![h] = FollowerStrCommand(hcmd[h])]
    /\ hpc' = [hpc EXCEPT ![h] = "write"]
    /\ UNCHANGED <<fileVars, netVars, leaderVars, fpc, dbLock, fileLock, hcmd,
                   ioErrors, pureVars>>

\* file.write_all: a write() that takes all the bytes left
HandlerWrite(h) ==
    /\ hpc[h] = "write"
    /\ FileAppend(FollowerLogPath, hbuf[h])
    /\ hbuf' = [hbuf EXCEPT ![h] = <<>>]
    /\ hpc' = [hpc EXCEPT ![h] = "sync"]
    /\ UNCHANGED <<disk, netVars, leaderVars, fpc, fdb, dbLock, fileLock, hcmd,
                   ioErrors, pureVars>>

\* file.write_all: a write() that takes only the first bytes; write_all goes on
HandlerShortWrite(h) ==
    /\ hpc[h] = "write"
    /\ Len(hbuf[h]) > ShortWrite
    /\ FileAppend(FollowerLogPath, SubSeq(hbuf[h], 1, ShortWrite))
    /\ hbuf' = [hbuf EXCEPT ![h] = SubSeq(@, ShortWrite + 1, Len(@))]
    /\ UNCHANGED <<disk, netVars, leaderVars, fpc, fdb, dbLock, fileLock, hpc, hcmd,
                   ioErrors, pureVars>>

\* guards that are not dropped
ReleaseLocks_Leaked(h) == UNCHANGED <<fileLock, dbLock>>

\* the guards of the two mutexes go out of scope
ReleaseLocks(h) ==
    /\ fileLock' = IF fileLock = h THEN 0 ELSE fileLock
    /\ dbLock' = IF dbLock = h THEN 0 ELSE dbLock

\* file.sync_all and the end of the match arm
HandlerSync(h) ==
    /\ hpc[h] = "sync"
    /\ SyncAll(FollowerLogPath)
    /\ ReleaseLocks(h)
    /\ hpc' = [hpc EXCEPT ![h] = "read"]
    /\ hcmd' = [hcmd EXCEPT ![h] = NoCmd]
    /\ UNCHANGED <<fs, netVars, leaderVars, fpc, fdb, hbuf, ioErrors, pureVars>>

\* file.write_all or file.sync_all returns an error: handle_client returns it
HandlerIoError(h) ==
    /\ hpc[h] \in {"write", "sync"}
    /\ ioErrors < MaxIoErrors
    /\ ioErrors' = ioErrors + 1
    /\ ReleaseLocks(h)
    /\ hbuf' = [hbuf EXCEPT ![h] = <<>>]
    /\ hpc' = [hpc EXCEPT ![h] = "ended"]
    /\ UNCHANGED <<fileVars, netVars, leaderVars, fpc, fdb, hcmd, pureVars>>

----------------------------------------------------------------------------
(* Clients of the follower other than the leader *)

ClientConnect(h) ==
    /\ fpc # "init"
    /\ cstate[h] = "none"
    /\ cstate' = [cstate EXCEPT ![h] = "open"]
    /\ UNCHANGED <<fileVars, sent, rpos, leaderVars, followerVars, ioErrors, pureVars>>

\* lines all clients have sent so far
RECURSIVE CountNL(_)
CountNL(s) == IF s = <<>> THEN 0 ELSE (IF Head(s) = "\n" THEN 1 ELSE 0) + CountNL(Tail(s))

RECURSIVE SumLines(_)
SumLines(hs) ==
    IF hs = {} THEN 0
    ELSE LET h == CHOOSE x \in hs : TRUE
         IN  CountNL(sent[h]) + SumLines(hs \ {h})

ClientSend(h, line) ==
    /\ cstate[h] = "open"
    /\ SumLines(Conns) < MaxLines
    /\ sent' = [sent EXCEPT ![h] = @ \o line \o NL]
    /\ UNCHANGED <<fileVars, cstate, rpos, leaderVars, followerVars, ioErrors, pureVars>>

ClientClose(h) ==
    /\ cstate[h] = "open"
    /\ cstate' = [cstate EXCEPT ![h] = "closed"]
    /\ UNCHANGED <<fileVars, sent, rpos, leaderVars, followerVars, ioErrors, pureVars>>

----------------------------------------------------------------------------
(* Specifications *)

Key_a == <<"a">>
Key_b == <<"b">>
Val_1 == <<"1">>
Val_2 == <<"2">>
Val_3 == <<"3">>

Line(toks) == IF Len(toks) = 3 THEN toks[1] \o SP \o toks[2] \o SP \o toks[3]
              ELSE IF Len(toks) = 2 THEN toks[1] \o SP \o toks[2]
              ELSE toks[1]

\* what the operator may type
OperatorLines ==
    { Line(<<SET, Key_a, Val_1>>), Line(<<SET, Key_b, Val_2>>), Line(<<SET, Key_b, Val_3>>),
      Line(<<DEL, Key_a>>), Line(<<GET, Key_b>>), Line(<<FOO, <<"b", "a", "r">> >>) }

\* what a client of the follower may send
ClientLines ==
    { Line(<<SET, Key_a, Val_1>>), Line(<<SET, Key_a, Val_2>>), Line(<<DEL, Key_a>>),
      Line(<<FOO, <<"b", "a", "r">> >>), Line(<<SET, Key_a>>) }

\* the operator types a line
OperatorInput ==
    \E line \in OperatorLines : Len(issued) < MaxCmds /\ LeaderReadLine(line)

Handler(h) ==
    \/ Accept(h)
    \/ HandlerRead(h)
    \/ HandlerLockDb(h)
    \/ HandlerLockFile(h)
    \/ HandlerApply(h)
    \/ HandlerWrite(h)
    \/ HandlerShortWrite(h)
    \/ HandlerSync(h)
    \/ HandlerIoError(h)

\* the leader and the follower it forwards to
Next ==
    \/ LeaderStart
    \/ OperatorInput
    \/ LeaderEof
    \/ LeaderEofError
    \/ LeaderWriteLog
    \/ LeaderForward
    \/ LeaderForwardError
    \/ LeaderSync
    \/ LeaderIoError
    \/ LeaderCrash
    \/ FollowerBind
    \/ FollowerStart
    \/ \E h \in Conns : Handler(h)

Spec == Init /\ [][Next]_vars

\* the follower alone, with clients that send it lines on several connections
NextFollower ==
    \/ FollowerBind
    \/ FollowerStart
    \/ \E h \in Conns : Handler(h)
    \/ \E h \in Conns : ClientConnect(h)
    \/ \E h \in Conns, line \in ClientLines : ClientSend(h, line)
    \/ \E h \in Conns : ClientClose(h)

SpecFollower == Init /\ [][NextFollower]_vars

\* the steps of a handler that need no input and cannot fail to be
\* scheduled: a spawned task that can run does run
HandlerProgress(h) ==
    \/ HandlerLockDb(h)
    \/ HandlerLockFile(h)
    \/ HandlerApply(h)
    \/ HandlerWrite(h)
    \/ HandlerSync(h)

SpecFollowerFair == SpecFollower /\ \A h \in Conns : WF_vars(HandlerProgress(h))

\* the leader and the follower, the operator typing the lines of a script
Scenario ==
    << Line(<<SET, Key_a, Val_1>>), Line(<<SET, Key_b, Val_2>>),
       Line(<<DEL, Key_a>>), Line(<<SET, Key_b, Val_3>>) >>

ScenarioInput ==
    /\ Len(issued) < Len(Scenario)
    /\ LeaderReadLine(Scenario[Len(issued) + 1])

NextScenario ==
    \/ LeaderStart
    \/ ScenarioInput
    \/ LeaderEof
    \/ LeaderWriteLog
    \/ LeaderForward
    \/ LeaderSync
    \/ FollowerBind
    \/ FollowerStart
    \/ \E h \in Conns : Handler(h)

SpecScenario == Init /\ [][NextScenario]_vars

----------------------------------------------------------------------------
(* The pure functions, called on arguments drawn from bounded sets *)

Keys == {Key_a, Key_b}
Vals == {Val_1, Val_2}

Tables == UNION {[D -> Vals] : D \in SUBSET Keys}

Commands ==
    {CmdSet(k, v) : k \in Keys, v \in Vals} \cup {CmdDelete(k) : k \in Keys}
        \cup {CmdGet(k) : k \in Keys} \cup {CmdUnknown}

\* what a log file may hold, line by line: the records of Set and Delete
\* commands, and lines that are no record
RawLine(text) == [type |-> "Raw", key |-> text, val |-> NoStr]

Entries ==
    {CmdSet(k, v) : k \in Keys, v \in Vals} \cup {CmdDelete(k) : k \in Keys}
        \cup {RawLine(Line(<<FOO, <<"b", "a", "r">> >>)), RawLine(FOO)}

EntrySeqs == UNION {[1..n -> Entries] : n \in 0..MaxLogLines}

EntryBytes(e) ==
    CASE e.type = "Set" -> FormatSet(e.key, e.val)
      [] e.type = "Delete" -> FormatDel(e.key)
      [] OTHER -> e.key \o NL

RECURSIVE FileOf(_)
FileOf(es) == IF es = <<>> THEN <<>> ELSE EntryBytes(Head(es)) \o FileOf(Tail(es))

PureCalls ==
    {[fn |-> "run_command", db |-> d, command |-> c, entries |-> <<>>, log |-> <<>>] :
        d \in Tables, c \in Commands}
    \cup
    {[fn |-> f, db |-> EmptyDb, command |-> NoCmd, entries |-> es, log |-> FileOf(es)] :
        f \in {"replay", "follower_replay"}, es \in EntrySeqs}
    \cup
    {[fn |-> "apply_both", db |-> EmptyDb, command |-> NoCmd, entries |-> es, log |-> <<>>] :
        es \in {x \in EntrySeqs : \A i \in 1..Len(x) : x[i].type \in {"Set", "Delete"}}}

InitPure ==
    /\ InitSys
    /\ parg \in PureCalls
    /\ pret = NoRet

CallRunCommand ==
    /\ parg.fn = "run_command"
    /\ pret.status = "none"
    /\ LET r == run_command(parg.db, parg.command)
       IN  pret' = [status |-> "Ok", db |-> r.db, response |-> r.response]
    /\ UNCHANGED <<fileVars, netVars, leaderVars, followerVars, ioErrors, parg>>

CallReplay ==
    /\ parg.fn = "replay"
    /\ pret.status = "none"
    /\ LET r == replay(parg.log)
       IN  pret' = [status |-> r.status, db |-> r.db, response |-> RespUnknown]
    /\ UNCHANGED <<fileVars, netVars, leaderVars, followerVars, ioErrors, parg>>

CallFollowerReplay ==
    /\ parg.fn = "follower_replay"
    /\ pret.status = "none"
    /\ LET r == follower_replay(parg.log)
       IN  pret' = [status |-> r.status, db |-> r.db, response |-> RespUnknown]
    /\ UNCHANGED <<fileVars, netVars, leaderVars, followerVars, ioErrors, parg>>

\* the next command of a sequence applied to two tables: by run_command to
\* the one in parg.db, by the arms of handle_client to the one in pret.db
ApplyBoth ==
    /\ parg.fn = "apply_both"
    /\ parg.entries # <<>>
    /\ parg' = [parg EXCEPT !.db = run_command(parg.db, Head(parg.entries)).db,
                            !.command = Head(parg.entries),
                            !.entries = Tail(parg.entries)]
    /\ pret' = [pret EXCEPT !.status = "Ok",
                            !.db = FollowerApply(pret.db, Head(parg.entries))]
    /\ UNCHANGED <<fileVars, netVars, leaderVars, followerVars, ioErrors>>

NextPure == CallRunCommand \/ CallReplay \/ CallFollowerReplay \/ ApplyBoth

SpecPure == InitPure /\ [][NextPure]_vars

----------------------------------------------------------------------------
(* Vocabulary of the properties *)

IsPrefix(s, t) == Len(s) <= Len(t) /\ SubSeq(t, 1, Len(s)) = s

Last(s) == s[Len(s)]

\* the left fold of the Command Applier over a sequence of commands
RECURSIVE ApplierFold(_, _)
ApplierFold(db, cmds) ==
    IF cmds = <<>> THEN db
    ELSE ApplierFold(run_command(db, Head(cmds)).db, Tail(cmds))

\* a line of the grammar SET <key> <value> or DEL <key>, read token by token
RecordOf(line) ==
    LET toks == split_whitespace(line)
    IN  IF Len(toks) = 3 /\ toks[1] = SET THEN CmdSet(toks[2], toks[3])
        ELSE IF Len(toks) = 2 /\ toks[1] = DEL THEN CmdDelete(toks[2])
        ELSE RawLine(line)

\* the records of a log file, in file order
Records(bytes) == [i \in 1..Len(lines(bytes)) |-> RecordOf(lines(bytes)[i])]

\* a file of whole records only: every line a record, the last one terminated
WholeRecords(bytes) ==
    /\ bytes # <<>> => Last(bytes) = "\n"
    /\ \A i \in 1..Len(Records(bytes)) : Records(bytes)[i].type \in {"Set", "Delete"}

\* the bytes sent on all connections, in the order the connections were made
RECURSIVE SentUpTo(_)
SentUpTo(n) == IF n = 0 THEN <<>> ELSE SentUpTo(n - 1) \o sent[n]

AllSent == SentUpTo(NumConns)

\* the lines the operator entered that are Set or Delete commands, as records
RECURSIVE MutatingRecords(_)
MutatingRecords(ls) ==
    IF ls = <<>> THEN <<>>
    ELSE LET c == RecordOf(Head(ls))
         IN  (IF c.type \in {"Set", "Delete"} THEN <<c>> ELSE <<>>)
                 \o MutatingRecords(Tail(ls))

\* the leader is between two commands, none having failed
LeaderIdle == lpc = "read" /\ crashes = 0 /\ ioErrors = 0

----------------------------------------------------------------------------
(* C1..C5: the leader's log, table and channel *)

\* C1: every byte the leader has sent to the follower belongs to a record
\* that is already in the synced part of the leader's log: what was sent is
\* a prefix of what a crash leaves of leader.log.
C1_ForwardAfterDurable == IsPrefix(AllSent, disk[LeaderLogPath])

\* C2: whenever the leader is between two commands, its table is the left
\* fold of the Command Applier over the records of its log, in file order.
C2_TableIsFoldOfLog ==
    LeaderIdle => ldb = ApplierFold(EmptyDb, Records(fs[LeaderLogPath]))

\* C3: every Set or Delete command the operator entered has exactly one
\* record in the leader's log, in the order of entry; after the script
\* SET a 1, SET b 2, DEL a, SET b 3 the table is {b: 3}, the log holds these
\* four records and its replay yields {b: 3}.
C3_OneRecordPerCommand ==
    LeaderIdle =>
        /\ WholeRecords(fs[LeaderLogPath])
        /\ Records(fs[LeaderLogPath]) = MutatingRecords(issued)
        /\ issued = Scenario =>
              /\ ldb = [k \in {Key_b} |-> Val_3]
              /\ Len(Records(fs[LeaderLogPath])) = 4
              /\ replay(fs[LeaderLogPath]) = [status |-> "Ok", db |-> ldb]

\* C4: once the follower has consumed every record the leader forwarded, and
\* nothing has failed, the follower's table equals the leader's.
C4_FollowerCatchesUp ==
    (/\ LeaderIdle
     /\ lconn # 0
     /\ hpc[lconn] = "read"
     /\ rpos[lconn] = Len(sent[lconn]))
        => fdb = ldb

\* C5: when a Set or Delete command has changed the table and returned
\* success, its record is the last entry of the leader's log on stable
\* storage, and the table a restart of the leader would rebuild from stable
\* storage is the leader's table.
C5_DurableAndRecoverable ==
    (lpc = "read" /\ lresp.type \in {"Set", "Replace", "Delete"}) =>
        /\ Records(disk[LeaderLogPath]) # <<>>
        /\ Last(Records(disk[LeaderLogPath])) = lcmd
        /\ replay(disk[LeaderReplayPath]) = [status |-> "Ok", db |-> ldb]

----------------------------------------------------------------------------
(* C6, C9, C10: the Command Applier and replay *)

\* tables that agree on every key but k
SameButFor(d, e, k) ==
    /\ DOMAIN d \ {k} = DOMAIN e \ {k}
    /\ \A x \in DOMAIN d \ {k} : d[x] = e[x]

\* C6: run_command is the Command Applier: Set inserts (Inserted) or
\* overwrites (Replaced, with the prior value), Delete removes (Removed, with
\* the prior value) or answers NotFound, Get answers Got or NotFound, an
\* unrecognized command is Ignored; nothing else in the table changes.
C6_CommandApplier ==
    (parg.fn = "run_command" /\ pret.status # "none") =>
        LET d == parg.db
            c == parg.command
            k == c.key
            e == pret.db
            r == pret.response
        IN  /\ SameButFor(d, e, k)
            /\ c.type = "Set" =>
                  /\ k \in DOMAIN e /\ e[k] = c.val
                  /\ r = (IF k \in DOMAIN d THEN RespReplace(k, d[k], c.val)
                          ELSE RespSet(k, c.val))
            /\ c.type = "Delete" =>
                  /\ k \notin DOMAIN e
                  /\ r = (IF k \in DOMAIN d THEN RespDelete(k, d[k])
                          ELSE RespKeyNotFound(k))
            /\ c.type = "Get" =>
                  /\ e = d
                  /\ r = (IF k \in DOMAIN d THEN RespGet(k, d[k])
                          ELSE RespKeyNotFound(k))
            /\ c.type = "Unknown" => e = d /\ r = RespUnknown

\* a Delete on a present key of a table with another key has been applied
C6_Witness ==
    /\ parg.fn = "run_command"
    /\ pret.status = "Ok"
    /\ parg.command.type = "Delete"
    /\ parg.command.key \in DOMAIN parg.db
    /\ DOMAIN pret.db # {}
    /\ pret.response.type = "Delete"

ReplayCall == parg.fn \in {"replay", "follower_replay"} /\ pret.status # "none"

OnlyRecords(es) == \A i \in 1..Len(es) : es[i].type \in {"Set", "Delete"}

\* C9: replay of a file of SET/DEL records returns the left fold of
\* run_command over the records, starting from the empty table.
C9_ReplayIsFold ==
    (ReplayCall /\ OnlyRecords(parg.entries)) =>
        pret = [status |-> "Ok", db |-> ApplierFold(EmptyDb, parg.entries),
                response |-> RespUnknown]

\* a replayed file in which a key is set, set again and deleted
C9_Witness ==
    /\ ReplayCall
    /\ OnlyRecords(parg.entries)
    /\ \E i, j, k \in 1..Len(parg.entries) :
          /\ i < j /\ j < k
          /\ parg.entries[i].type = "Set"
          /\ parg.entries[j].type = "Set"
          /\ parg.entries[j].key = parg.entries[i].key
          /\ parg.entries[j].val # parg.entries[i].val
          /\ parg.entries[k] = CmdDelete(parg.entries[i].key)
    /\ pret.db = EmptyDb

\* C10: replay of a file with a line that is no SET or DEL record does not
\* return a table: it fails.
C10_CorruptLineFailsReplay ==
    (ReplayCall /\ ~OnlyRecords(parg.entries)) => pret.status # "Ok"

----------------------------------------------------------------------------
(* C7: read-only commands on the leader *)

ReadOnly(c) == c.type \in {"Get", "Unknown"}

\* a step of persist_command on a Get or an Unrecognized command: the command
\* is taken up, or is in hand and the leader goes on with it or ends it
ReadOnlyStep ==
    \/ lpc = "read" /\ lpc' \in {"write", "send", "sync"} /\ ReadOnly(lcmd')
    \/ /\ lpc \in {"write", "send", "sync"} /\ ReadOnly(lcmd)
       /\ lpc' \in {"write", "send", "sync", "read"}

\* the response the Command Applier owes to a read-only command
ReadOnlyResponse(db, c) ==
    IF c.type = "Unknown" THEN RespUnknown
    ELSE IF c.key \in DOMAIN db THEN RespGet(c.key, db[c.key])
    ELSE RespKeyNotFound(c.key)

\* C7: while the leader handles a Get or an Unrecognized command, the bytes
\* of its log (written and synced), the bytes sent on the channel and the
\* table do not change; ending the command displays its response, and
\* nothing else is displayed.
C7_ReadOnlyHasNoEffect ==
    [][ReadOnlyStep =>
          /\ fs'[LeaderLogPath] = fs[LeaderLogPath]
          /\ disk'[LeaderLogPath] = disk[LeaderLogPath]
          /\ sent' = sent
          /\ ldb' = ldb
          /\ display' = IF lpc' = "read"
                        THEN Append(display, ReadOnlyResponse(ldb, lcmd))
                        ELSE display]_vars

\* a Get of a present key has been answered by a leader with a log
C7_Witness ==
    /\ lpc = "read"
    /\ lcmd.type = "Get"
    /\ display # <<>>
    /\ Last(display).type = "Get"
    /\ fs[LeaderLogPath] # <<>>
    /\ sent[lconn] # <<>>

----------------------------------------------------------------------------
(* C8: concurrent handlers of the follower *)

InCriticalSection(h) == hpc[h] \in {"apply", "write", "sync"}

\* the Set and Delete commands handler h has read from its connection
Received(h) == MutatingRecords(lines(SubSeq(sent[h], 1, rpos[h])))

\* those of them it has applied and logged: all but the one it waits to lock for
Finished(h) ==
    IF hpc[h] \in {"lockdb", "lockfile"}
    THEN SubSeq(Received(h), 1, Len(Received(h)) - 1)
    ELSE Received(h)

RECURSIVE FinishedUpTo(_)
FinishedUpTo(n) == IF n = 0 THEN <<>> ELSE FinishedUpTo(n - 1) \o Finished(n)

\* the number of members of a sequence equal to x
Occurrences(s, x) == Cardinality({i \in 1..Len(s) : s[i] = x})

\* s can be had from t by leaving members out
RECURSIVE IsSubseq(_, _)
IsSubseq(s, t) ==
    IF s = <<>> THEN TRUE
    ELSE IF t = <<>> THEN FALSE
    ELSE IF Head(s) = Head(t) THEN IsSubseq(Tail(s), Tail(t))
    ELSE IsSubseq(s, Tail(t))

\* no handler is between apply and sync, and no I/O error has occurred
Quiescent == ioErrors = 0 /\ \A h \in Conns : ~InCriticalSection(h)

\* C8: no two handlers are between apply and sync at once; and when none is,
\* no I/O error having occurred, the follower's log consists of whole
\* records, exactly one for each Set or Delete command a handler has
\* finished, those of one connection in the order of their arrival, and the
\* shared table is the fold of the Command Applier over the log in file order.
C8_SerializedWriters ==
    /\ Cardinality({h \in Conns : InCriticalSection(h)}) <= 1
    /\ Quiescent =>
          LET recs == Records(fs[FollowerLogPath])
              done == FinishedUpTo(NumConns)
          IN  /\ WholeRecords(fs[FollowerLogPath])
              /\ Len(recs) = Len(done)
              /\ \A i \in 1..Len(done) :
                    Occurrences(recs, done[i]) = Occurrences(done, done[i])
              /\ \A h \in Conns : IsSubseq(Finished(h), recs)
              /\ fdb = ApplierFold(EmptyDb, recs)

\* two handlers have each logged commands of their own connection, on the
\* same key, and the log does not follow the order of the connections
C8_Witness ==
    /\ Quiescent
    /\ \A h \in Conns : hpc[h] = "read" /\ Finished(h) # <<>>
    /\ Len(Records(fs[FollowerLogPath])) >= 3
    /\ Records(fs[FollowerLogPath]) # FinishedUpTo(NumConns)
    /\ Records(fs[FollowerLogPath]) # Finished(2) \o Finished(1)

----------------------------------------------------------------------------
(* C11, C14: lines that are no command, and the end of a connection *)

\* handler h reads a line of its connection in this step: the line
ReadsLine(h) == hpc[h] = "read" /\ rpos'[h] > rpos[h]
LineRead(h) == trim_end(SubSeq(sent[h], rpos[h] + 1, rpos'[h]))

\* C11: a handler that reads a line which is no SET or DEL record (an
\* unknown verb, a missing key or value, an empty line) does nothing to the
\* table and the log and goes on to read the next line.
C11_MalformedLineIsNoOp ==
    [][\A h \in Conns :
          (ReadsLine(h) /\ RecordOf(LineRead(h)).type = "Raw") =>
              /\ hpc'[h] = "read"
              /\ fdb' = fdb
              /\ fs' = fs]_vars

\* handler h, reading, takes a step at the end of its stream
ReadsEof(h) ==
    /\ hpc[h] = "read"
    /\ cstate[h] \in {"closed", "shutdown"}
    /\ rpos[h] = Len(sent[h])
    /\ <<hpc[h], hcmd[h]>>' # <<hpc[h], hcmd[h]>>

\* C14: a handler that finds the end of its stream ends, holding no lock;
\* the step changes neither the table nor the log nor the locks nor any
\* other handler; and a handler that has ended holds no lock, so the others
\* can go on.
C14_ClosedConnectionEndsOneHandler ==
    [][\A h \in Conns :
          /\ ReadsEof(h) =>
                /\ hpc'[h] = "ended"
                /\ \A g \in Conns \ {h} : hpc'[g] = hpc[g]
                /\ <<fdb, fs, disk, dbLock, fileLock>>' = <<fdb, fs, disk, dbLock, fileLock>>
          /\ hpc'[h] = "ended" => dbLock' # h /\ fileLock' # h]_vars

\* one connection was closed and its handler has ended, with no I/O error,
\* while another handler is writing a record to a log that holds one already
C14_Witness ==
    /\ ioErrors = 0
    /\ \E h \in Conns :
          /\ hpc[h] = "ended" /\ cstate[h] = "closed"
          /\ \E g \in Conns \ {h} : hpc[g] = "sync" /\ dbLock = g /\ fileLock = g
    /\ Len(Records(fs[FollowerLogPath])) >= 2

----------------------------------------------------------------------------
(* C12, C13, C16: errors and the end of input on the leader *)

\* C12: when stream.write_all fails, the leader does not stop: it goes on
\* with the command in hand (sync, display) and with the commands after it.
C12_LeaderSurvivesForwardError ==
    [][(lpc = "send" /\ lpc' \notin {"send", "start"} /\ sent' = sent) =>
          lpc' \in {"sync", "read"}]_vars

\* an I/O error on the log ends the command in hand in this step
LogErrorStep == lpc \in {"write", "sync"} /\ lpc' = "failed"

\* C13: when file.write_all or file.sync_all fails, the record of the
\* command in hand is not and will not be on the channel (every byte sent
\* is in the synced log), and no response is displayed for it.
C13_FailedAppendIsNotForwarded ==
    [][LogErrorStep =>
          /\ IsPrefix(SentUpTo(NumConns)', disk'[LeaderLogPath])
          /\ display' = display]_vars

\* C16: the leader that has left its loop at the end of the operator's input
\* has shut its stream down in order.
C16_ShutdownBeforeExit == lpc = "exited" => cstate[lconn] = "shutdown"

\* the leader has exited after forwarding a record, and the follower's
\* handler has found the end of the shut down stream
C16_Witness ==
    /\ lpc = "exited"
    /\ sent[lconn] # <<>>
    /\ rpos[lconn] = Len(sent[lconn])
    /\ hpc[lconn] = "ended"
    /\ ioErrors = 0

----------------------------------------------------------------------------
(* C15: the follower's apply step and the leader's run_command *)

\* C15: after every prefix of a sequence of Set and Delete commands applied
\* to two empty tables, the table built by the arms of handle_client equals
\* the table built by run_command.
C15_SameTableEvolution == parg.fn = "apply_both" => pret.db = parg.db

\* three commands have been applied, the last one overwriting a value
C15_Witness ==
    /\ parg.fn = "apply_both"
    /\ parg.entries = <<>>
    /\ parg.command.type = "Set"
    /\ pret.status = "Ok"
    /\ DOMAIN pret.db = Keys
    /\ pret.db[parg.command.key] = parg.command.val

----------------------------------------------------------------------------
(* C17, C18: startup and the follower's log *)

\* C17: while the follower has not finished its replay no connection is
\* accepted and nothing is read, applied or logged; a leader that has not
\* finished its first replay has read no operator line.
C17_ReplayBeforeLiveCommands ==
    /\ fpc \in {"init", "bound"} =>
          /\ \A h \in Conns : hpc[h] = "idle" /\ rpos[h] = 0
          /\ fdb = EmptyDb
          /\ fs[FollowerLogPath] = <<>>
    /\ (lpc = "start" /\ crashes = 0) => issued = <<>> /\ display = <<>>
    /\ lpc = "start" => ldb = EmptyDb /\ lconn = 0

\* a record waits on the leader's connection while the follower has yet to
\* replay its log
C17_Witness ==
    /\ fpc = "bound"
    /\ lpc = "read"
    /\ sent[lconn] # <<>>
    /\ issued # <<>>

\* C18: with one leader connection, the follower's log is at every moment
\* an initial part of what the leader has sent: the same records in the
\* same order, none added, none twice.
C18_FollowerLogIsPrefixOfSent ==
    crashes = 0 => IsPrefix(fs[FollowerLogPath], SentUpTo(1))

\* the follower has logged two of the three records the leader has sent
C18_Witness ==
    /\ crashes = 0
    /\ Len(Records(sent[1])) = 3
    /\ WholeRecords(fs[FollowerLogPath])
    /\ Len(Records(fs[FollowerLogPath])) = 2

----------------------------------------------------------------------------
(* C19, C20: the follower's locks and a failed append *)

Waiting(h) == hpc[h] \in {"lockdb", "lockfile"}

\* C19: the file mutex is only held by the holder of the table mutex, a
\* handler that is not handling a command (in particular one that waits for
\* input, or has ended on an error) holds neither, and a handler that waits
\* for a mutex gets it.
C19_NoDeadlock ==
    /\ [](/\ fileLock # 0 => dbLock = fileLock
          /\ \A h \in Conns :
                hpc[h] \in {"idle", "read", "lockdb", "ended"} => dbLock # h /\ fileLock # h)
    /\ \A h \in Conns : Waiting(h) ~> ~Waiting(h)

\* a handler waits for the table mutex while another one, holding both
\* mutexes, is at its write
C19_Witness ==
    \E h, g \in Conns :
        /\ hpc[h] = "lockdb"
        /\ hpc[g] = "write" /\ dbLock = g /\ fileLock = g

\* C20: when a handler has ended (on an I/O error or otherwise) and no
\* handler is between apply and sync, the shared table is the fold of the
\* Command Applier over the records of the follower's log.
C20_FailedAppendLeavesTable ==
    ((\E h \in Conns : hpc[h] = "ended") /\ \A h \in Conns : ~InCriticalSection(h))
        => fdb = ApplierFold(EmptyDb, Records(fs[FollowerLogPath]))

====
